---- MODULE Spec2Model ----
(***************************************************************************)
(* The pidgeon gateway (src/server.rs): the accept loop `run`, the session *)
(* task it spawns, the session loop `handle_conn`, and the serial device   *)
(* behind the crow mutex (src/crow.rs).                                    *)
(*                                                                         *)
(* Clients and the device are the environment: a client connects, sends    *)
(* frames and closes its socket; the device answers a written payload with *)
(* a line, or stays silent.                                                *)
(***************************************************************************)
EXTENDS Integers, Sequences, FiniteSets, TLC

\* ------------------------------------------------------------------ bounds
NumConns == 2      \* client connections that are ever opened
MaxFrames == 3     \* frames the clients send in one behaviour, all connections together
MaxFaults == 2     \* device transport errors in one behaviour
MaxUnread == 2     \* frames a client has in flight, sent and not yet read by the server
MaxId == 1         \* request ids a client picks from 1..MaxId
MaxPayload == 257  \* longest frame payload of a byte-level run, apart from the BUFSIZE ones
MaxOver == 2       \* declared frame lengths go up to BUFSIZE + MaxOver
MaxChunk == 65     \* longest text handed to write_chunk in a byte-level run
MaxScript == 257   \* longest script handed to write_script in a byte-level run

\* ------------------------------------------------------- program constants
BACKLOG == 10      \* listen backlog of the gateway socket

Conns == 1..NumConns
NoConn == 0

\* Option<u64> of Failure.request_id: None is json null, Some(k) is k.
None == -1
Some(k) == k

\* ---------------------------------------------------------------- messages
\* enum Message, #[serde(tag = "status")]
Tags == {"Success", "Check", "Start", "Affirm", "Failure"}

Success(id, contents) == [status |-> "Success", request_id |-> id, contents |-> contents]
Failure(id, contents) == [status |-> "Failure", request_id |-> id, contents |-> contents]
Start == [status |-> "Start", request_id |-> None, contents |-> ""]
Check == [status |-> "Check", request_id |-> None, contents |-> ""]
Affirm == [status |-> "Affirm", request_id |-> None, contents |-> ""]

\* A frame whose payload is no Message: its tag is not one of the enum's.
Garbage == [status |-> "?", request_id |-> None, contents |-> ""]

\* serde_json::from_slice::<Message>: Ok exactly for a known tag.
Decodable(f) == f.status \in Tags

\* Payloads a client forwards, with their length in bytes.
Payloads == {"x"}
ByteLen(s) == CASE s = "x" -> 1 [] OTHER -> 0

\* Lines the device answers with.
Lines == {"OK"}

\* The frames a client may put on its connection.
ClientFrames ==
  {Start, Check, Affirm, Garbage, Failure(None, "client error")}
    \cup {Success(k, p) : k \in 1..MaxId, p \in Payloads}

\* Display of error::Error::IO, the error of a failed serial read or write.
IOErrors == {"broken pipe"}
ErrorText(e) == CASE e = "broken pipe" -> "IO error 'broken pipe'" [] OTHER -> "IO error"

\* ------------------------------------------------------------------- bytes
\* Texts and frames as the byte sequences the routines move.
BUFSIZE == 512 * 512

NL == 10         \* "\n"
Backtick == 96   \* "`"
Caret == 94      \* "^"

\* A byte sequence is kept as its runs, <<[b, n], ...>> for n bytes b each,
\* with no empty run and no two neighbouring runs of the same byte, so that
\* equal byte sequences are equal values.
Run(b, n) == [b |-> b, n |-> n]

RECURSIVE Norm(_)
Norm(r) ==
  IF r = <<>> THEN <<>>
  ELSE LET h == Head(r)
           t == Norm(Tail(r))
       IN IF h.n = 0 THEN t
          ELSE IF t # <<>> /\ Head(t).b = h.b
                 THEN <<Run(h.b, h.n + Head(t).n)>> \o Tail(t)
                 ELSE <<h>> \o t

\* The bytes listed in s; the text of n bytes b; concatenation; length.
Bytes(s) == Norm([i \in 1..Len(s) |-> Run(s[i], 1)])
Text(n, b) == Norm(<<Run(b, n)>>)
Cat(x, y) == Norm(x \o y)

RECURSIVE NumBytes(_)
NumBytes(r) == IF r = <<>> THEN 0 ELSE Head(r).n + NumBytes(Tail(r))

\* The first k bytes of r (all of r when it has fewer), and r without them.
RECURSIVE Take(_, _)
Take(r, k) ==
  IF k = 0 \/ r = <<>> THEN <<>>
  ELSE IF Head(r).n <= k THEN <<Head(r)>> \o Take(Tail(r), k - Head(r).n)
  ELSE <<Run(Head(r).b, k)>>

RECURSIVE Drop(_, _)
Drop(r, k) ==
  IF k = 0 \/ r = <<>> THEN r
  ELSE IF Head(r).n <= k THEN Drop(Tail(r), k - Head(r).n)
  ELSE <<Run(Head(r).b, Head(r).n - k)>> \o Tail(r)

ByteAt(r, i) == Head(Drop(r, i - 1)).b

\* write_u32 / read_u32: four bytes, big-endian.
U32LE(n) == Bytes(<<n % 256, (n \div 256) % 256, (n \div 65536) % 256, (n \div 16777216) % 256>>)

U32BE(n) == Bytes(<<(n \div 16777216) % 256, (n \div 65536) % 256, (n \div 256) % 256, n % 256>>)
FromU32BE(r) == ((ByteAt(r, 1) * 256 + ByteAt(r, 2)) * 256 + ByteAt(r, 3)) * 256 + ByteAt(r, 4)

\* Server::write_bytes: the length prefix, then the chunk.
WriteBytes(chunk) == Cat(U32BE(NumBytes(chunk)), chunk)

\* Server::read_bytes on a connection that delivers `stream` and is then at
\* end of file. `asked` is the number of payload bytes read_exact is called
\* for. Slicing backing_buf[0..len] panics for len > BUFSIZE, before read_exact.
ReadBytesUnchecked(stream) ==
  IF NumBytes(stream) < 4
    THEN [outcome |-> "error", len |-> 0, asked |-> 0, payload |-> <<>>, rest |-> <<>>]
    ELSE LET len == FromU32BE(Take(stream, 4)) IN
         IF NumBytes(stream) - 4 < len
           THEN [outcome |-> "error", len |-> len, asked |-> len, payload |-> <<>>, rest |-> <<>>]
           ELSE [outcome |-> "ok", len |-> len, asked |-> len,
                 payload |-> Take(Drop(stream, 4), len),
                 rest |-> Drop(stream, 4 + len)]

ReadBytes(stream) ==
  IF NumBytes(stream) < 4
    THEN [outcome |-> "error", len |-> 0, asked |-> 0, payload |-> <<>>, rest |-> <<>>]
    ELSE LET len == FromU32BE(Take(stream, 4)) IN
         IF len > BUFSIZE
           THEN [outcome |-> "panic", len |-> len, asked |-> 0, payload |-> <<>>, rest |-> <<>>]
           ELSE IF NumBytes(stream) - 4 < len
             THEN [outcome |-> "error", len |-> len, asked |-> len, payload |-> <<>>, rest |-> <<>>]
             ELSE [outcome |-> "ok", len |-> len, asked |-> len,
                   payload |-> Take(Drop(stream, 4), len),
                   rest |-> Drop(stream, 4 + len)]

\* crow::write_all and crow::write_delimited: what they put on the serial line.
WriteAll(chunk) == Cat(chunk, Bytes(<<NL>>))
WriteDelimited(chunk) ==
  Cat(Cat(Cat(Text(3, Backtick), chunk), Text(3, Backtick)), Bytes(<<NL>>))

\* handle_conn's write_chunk picks the form by chunk.len().
FormOfLenOver(n) == IF n > 64 THEN "delimited" ELSE "plain"

FormOfLen(n) == IF n >= 64 THEN "delimited" ELSE "plain"

WriteChunkWire(chunk) ==
  IF FormOfLen(NumBytes(chunk)) = "delimited" THEN WriteDelimited(chunk) ELSE WriteAll(chunk)

\* The crow commands "^^s" (upload) and "^^e" (execute).
Upload == Bytes(<<Caret, Caret, 115>>)
Execute == Bytes(<<Caret, Caret, 101>>)

\* crow::write_script. Its first statement logs &script[..256] at level
\* info: when the subscriber takes that level (`info`), the slice is
\* evaluated and panics for a script of fewer than 256 bytes.
WriteScript(script, info) ==
  IF info /\ NumBytes(script) < 256
    THEN [outcome |-> "panic", wire |-> <<>>]
    ELSE [outcome |-> "ok",
          wire |-> Cat(Cat(Cat(Upload, script), Execute), Bytes(<<NL>>))]

\* main.rs Crow::write_script: the same log statement; each command goes out
\* through write_message, which ends it with a newline.
WriteScriptMain(script, info) ==
  IF info /\ NumBytes(script) < 256
    THEN [outcome |-> "panic", wire |-> <<>>]
    ELSE [outcome |-> "ok",
          wire |-> Cat(Cat(Cat(Cat(Cat(Upload, Bytes(<<NL>>)), script), Execute),
                           Bytes(<<NL>>)), Bytes(<<NL>>))]

\* The REPL's line "exit".
ExitLine == Bytes(<<101, 120, 105, 116>>)

\* repl::run picks the form by line.len() (main.rs's REPL does the same).
ReplForm(n) == IF n > 64 THEN "delimited" ELSE "plain"

\* One turn of repl::run's loop on a line read from the terminal: "exit"
\* breaks the loop before any write; any other line is written.
ReplLine(line) ==
  IF line = ExitLine
    THEN [outcome |-> "exit", wire |-> <<>>]
    ELSE [outcome |-> "ok",
          wire |-> IF ReplForm(NumBytes(line)) = "delimited"
                     THEN WriteDelimited(line) ELSE WriteAll(line)]

\* No byte-level call is being looked at.
NoCall ==
  [op |-> "none", text |-> <<>>, info |-> FALSE, tosend |-> <<>>, sent |-> <<>>,
   stream |-> <<>>, got |-> <<>>, len |-> 0, asked |-> 0, outcome |-> "", wire |-> <<>>]

VARIABLES
  backlog,       \* connections established and not yet accepted, oldest first
  cstate,        \* per connection: "unconnected", "backlog", "first", "session", "dropped"
  inbox,         \* per connection: frames the client sent, not yet read by the server
  nsent,         \* per connection: frames the client has sent
  lastSeq,       \* per connection: ordinal of the frame the server read last
  first,         \* per connection: tag of the first frame the client sent, "" before it
  clientClosed,  \* per connection: the client closed its socket
  outbox,        \* per connection: messages the server wrote to the client
  srv,           \* run(): "accept", "read_first", "join", "stopped"
  cur,           \* run(): the connection accepted last
  busy,          \* run(): the AtomicBool
  lock,          \* the crow mutex: its holder, or NoConn
  tpc,           \* per connection: position of its session task
  req,           \* per connection: the request handle_conn is processing
  resp,          \* per connection: the response handle_conn is about to write
  devIn,         \* what was written to the device, in order
  devOut,        \* lines the device emitted and nobody read yet
  devNext,       \* index in devIn of the next write the device may answer
  faults,        \* device transport errors so far
  hist,          \* per connection: history of the requests of its session
  rival,         \* per connection: the session that was active when its first frame was sent
  io             \* one call of a byte-level routine: its arguments, its position, its effect

vars == <<backlog, cstate, inbox, nsent, lastSeq, first, clientClosed, outbox, srv, cur, busy, lock,
          tpc, req, resp, devIn, devOut, devNext, faults, hist, rival, io>>

\* Everything but io.
gatewayVars == <<backlog, cstate, inbox, nsent, lastSeq, first, clientClosed, outbox, srv, cur, busy,
                 lock, tpc, req, resp, devIn, devOut, devNext, faults, hist, rival>>

clientVars == <<inbox, nsent, lastSeq, clientClosed, first, rival>>
srvVars == <<srv, cur, busy>>
taskVars == <<lock, tpc, req, resp, hist>>
devVars == <<devIn, devOut, devNext, faults>>

NoReq == [request_id |-> 0, contents |-> ""]

\* A session is Active from the moment run() spawns its task until the task ends.
Active(c) == tpc[c] \notin {"none", "done"}
ActiveSessions == {c \in Conns : Active(c)}

GatewayInit ==
  /\ backlog = <<>>
  /\ cstate = [c \in Conns |-> "unconnected"]
  /\ inbox = [c \in Conns |-> <<>>]
  /\ nsent = [c \in Conns |-> 0]
  /\ lastSeq = [c \in Conns |-> 0]
  /\ first = [c \in Conns |-> ""]
  /\ clientClosed = [c \in Conns |-> FALSE]
  /\ outbox = [c \in Conns |-> <<>>]
  /\ srv = "accept"
  /\ cur = NoConn
  /\ busy = FALSE
  /\ lock = NoConn
  /\ tpc = [c \in Conns |-> "none"]
  /\ req = [c \in Conns |-> NoReq]
  /\ resp = [c \in Conns |-> Affirm]
  /\ devIn = <<>>
  /\ devOut = <<>>
  /\ devNext = 1
  /\ faults = 0
  /\ hist = [c \in Conns |-> <<>>]
  /\ rival = [c \in Conns |-> NoConn]

Init == GatewayInit /\ io = NoCall


\* ---------------------------------------------------------------- clients
\* A client opens a TCP connection: the kernel completes the handshake and
\* queues it for listener.accept(), up to the listen backlog.
Connect(c) ==
  /\ cstate[c] = "unconnected"
  /\ \A d \in Conns : d < c => cstate[d] # "unconnected"
  /\ srv # "stopped"
  /\ Len(backlog) < BACKLOG
  /\ backlog' = Append(backlog, c)
  /\ cstate' = [cstate EXCEPT ![c] = "backlog"]
  /\ UNCHANGED <<io, clientVars, outbox, srvVars, taskVars, devVars>>

RECURSIVE SumTo(_, _)
SumTo(f, n) == IF n = 0 THEN 0 ELSE f[n] + SumTo(f, n - 1)
TotalSent == SumTo(nsent, NumConns)

\* A client writes one frame; an established connection takes it whether or
\* not the server has accepted the connection yet.
ClientSend(c, f) ==
  /\ cstate[c] \in {"backlog", "first", "session"}
  /\ ~clientClosed[c]
  /\ TotalSent < MaxFrames
  /\ Len(inbox[c]) < MaxUnread
  /\ inbox' = [inbox EXCEPT ![c] = Append(@, [seq |-> nsent[c] + 1, msg |-> f])]
  /\ nsent' = [nsent EXCEPT ![c] = @ + 1]
  /\ first' = IF nsent[c] = 0 THEN [first EXCEPT ![c] = f.status] ELSE first
  /\ rival' = IF nsent[c] = 0 /\ ActiveSessions \ {c} # {}
              THEN [rival EXCEPT ![c] = CHOOSE d \in ActiveSessions \ {c} : TRUE]
              ELSE rival
  /\ UNCHANGED <<io, backlog, cstate, clientClosed, lastSeq, outbox, srvVars, taskVars, devVars>>

\* A client closes its socket.
ClientClose(c) ==
  /\ cstate[c] \in {"backlog", "first", "session"}
  /\ ~clientClosed[c]
  /\ clientClosed' = [clientClosed EXCEPT ![c] = TRUE]
  /\ UNCHANGED <<io, backlog, cstate, inbox, nsent, lastSeq, first, rival, outbox, srvVars,
                 taskVars, devVars>>

\* ----------------------------------------------------------- the socket
\* Outcomes of a write to the client socket: it can fail only once the peer
\* has closed.
SendOutcomes(c) == IF clientClosed[c] THEN {TRUE, FALSE} ELSE {TRUE}

Busy == Failure(None, "BUSY")
DontUnderstandBusy == Failure(None, "BUSY")

DontUnderstand == Failure(None, "don't understand")

\* ------------------------------------------------------------------ run()
\* listener.accept().await?
Accept ==
  /\ srv = "accept"
  /\ backlog # <<>>
  /\ cur' = Head(backlog)
  /\ backlog' = Tail(backlog)
  /\ cstate' = [cstate EXCEPT ![Head(backlog)] = "first"]
  /\ srv' = "read_first"
  /\ UNCHANGED <<io, clientVars, outbox, busy, taskVars, devVars>>

AfterSpawnDetached == "accept"

\* Where run() continues after tokio::spawn: it awaits the JoinHandle.
AfterSpawn == "join"

\* Start with the flag clear: spawn the session task and await it.
Admit(c) ==
  /\ tpc' = [tpc EXCEPT ![c] = "lock"]
  /\ cstate' = [cstate EXCEPT ![c] = "session"]
  /\ srv' = AfterSpawn
  /\ UNCHANGED outbox

\* server.write_message(m).await? in run(); the connection is dropped at the
\* end of the iteration, or run() returns the error.
Answer(c, m) ==
  \E ok \in SendOutcomes(c) :
    /\ outbox' = [outbox EXCEPT ![c] = IF ok THEN Append(@, m) ELSE @]
    /\ srv' = IF ok THEN "accept" ELSE "stopped"
    /\ cstate' = [cstate EXCEPT ![c] = "dropped"]
    /\ UNCHANGED tpc

\* run() returns Err through `?`: the accept loop is over.
Stop(c) ==
  /\ srv' = "stopped"
  /\ cstate' = [cstate EXCEPT ![c] = "dropped"]
  /\ UNCHANGED <<outbox, tpc>>

\* The reply of the accept loop to a first message that is not an admitted Start.
FirstReply(m) ==
  IF m.status = "Start" THEN Busy
  ELSE IF m.status = "Check" THEN (IF busy THEN Busy ELSE Affirm)
  ELSE DontUnderstand

\* The first frame of the accepted connection: read, decode, dispatch.
FirstFrame ==
  /\ srv = "read_first"
  /\ IF inbox[cur] = <<>>
     THEN /\ clientClosed[cur]
          /\ Stop(cur)
          /\ UNCHANGED <<inbox, lastSeq>>
     ELSE LET f == Head(inbox[cur]).msg IN
          /\ inbox' = [inbox EXCEPT ![cur] = Tail(@)]
          /\ lastSeq' = [lastSeq EXCEPT ![cur] = Head(inbox[cur]).seq]
          /\ IF ~Decodable(f) THEN Stop(cur)
             ELSE IF f.status = "Start" /\ ~busy THEN Admit(cur)
             ELSE Answer(cur, FirstReply(f))
  /\ UNCHANGED <<io, backlog, nsent, clientClosed, first, rival, cur, busy,
                 lock, req, resp, hist, devVars>>

\* ------------------------------------------------------- the session task
\* crow.lock().await
TaskLock(c) ==
  /\ tpc[c] = "lock"
  /\ lock = NoConn
  /\ lock' = c
  /\ tpc' = [tpc EXCEPT ![c] = "read_message"]
  /\ UNCHANGED <<io, backlog, cstate, clientVars, outbox, srvVars, req, resp, hist, devVars>>

ReleaseLeaked(c) == lock

\* The mutex after the task's guard is dropped.
Release(c) == IF lock = c THEN NoConn ELSE lock

\* handle_conn returned Err: expect() panics, the task ends, its guard and its
\* socket are dropped, and the JoinHandle run() awaits resolves.
EndSession(c) ==
  /\ tpc' = [tpc EXCEPT ![c] = "done"]
  /\ lock' = Release(c)
  /\ cstate' = [cstate EXCEPT ![c] = "dropped"]
  /\ srv' = IF srv = "join" /\ cur = c THEN "accept" ELSE srv

\* handle_conn goes on to position pc.
Goto(c, pc) ==
  /\ tpc' = [tpc EXCEPT ![c] = pc]
  /\ UNCHANGED <<lock, cstate, srv>>

\* server.write_message(m).await? inside handle_conn, continuing at pc.
Send(c, m, pc) ==
  \E ok \in SendOutcomes(c) :
    IF ok THEN /\ outbox' = [outbox EXCEPT ![c] = Append(@, m)]
               /\ Goto(c, pc)
          ELSE /\ UNCHANGED outbox
               /\ EndSession(c)

NewEntry(id, seq) ==
  [id |-> id, seq |-> seq, wr |-> "pending", rd |-> "pending", rdBy |-> NoConn,
   replies |-> <<>>, got |-> 0, gotAt |-> 0]

NextFrameNewest(q) == q[Len(q)]

\* The frame read_message takes from the connection: the oldest unread one.
NextFrame(q) == Head(q)
RestFrames(q) == Tail(q)

\* server.read_message().await? and the match on it.
ReadMessage(c) ==
  /\ tpc[c] = "read_message"
  /\ IF inbox[c] = <<>>
     THEN /\ clientClosed[c]
          /\ EndSession(c)
          /\ UNCHANGED <<inbox, lastSeq, outbox, req, hist>>
     ELSE LET f == NextFrame(inbox[c]).msg IN
          /\ inbox' = [inbox EXCEPT ![c] = RestFrames(@)]
          /\ lastSeq' = [lastSeq EXCEPT ![c] = NextFrame(inbox[c]).seq]
          /\ IF ~Decodable(f)
             THEN EndSession(c) /\ UNCHANGED <<outbox, req, hist>>
             ELSE IF f.status = "Success"
             THEN /\ req' = [req EXCEPT ![c] = [request_id |-> f.request_id,
                                                contents |-> f.contents]]
                  /\ hist' = [hist EXCEPT ![c] = Append(@, NewEntry(f.request_id,
                                                                      NextFrame(inbox[c]).seq))]
                  /\ Goto(c, "write_chunk")
                  /\ UNCHANGED outbox
             ELSE IF f.status = "Failure"
             THEN Goto(c, "read_message") /\ UNCHANGED <<outbox, req, hist>>
             ELSE Send(c, DontUnderstand, "read_message") /\ UNCHANGED <<req, hist>>
  /\ UNCHANGED <<io, backlog, nsent, clientClosed, first, rival, cur, busy, resp, devVars>>


\* The history entry of the request in progress, with one field set.
Mark(h, field, v) == [h EXCEPT ![Len(h)] = [@ EXCEPT ![field] = v]]
\* The same, for the outcome of its device read, made under mutex holder by.
MarkRead(h, v, by) == Mark(Mark(h, "rd", v), "rdBy", by)
Replied(h, pos) == [h EXCEPT ![Len(h)].replies = Append(@, pos)]

\* write_chunk: delimited from 64 bytes on, a plain line below.
WriteForm(chunk) == FormOfLen(ByteLen(chunk))

WriteErrorReplyNoId(id, e) == Failure(None, ErrorText(e))

\* The reply to a failed device write: the request's id and the error's text.
WriteErrorReply(id, e) == Failure(Some(id), ErrorText(e))

\* write_chunk(crow, &contents).await
WriteChunk(c) ==
  /\ tpc[c] = "write_chunk"
  /\ \/ /\ devIn' = Append(devIn, [conn |-> c, n |-> Len(hist[c]), holder |-> lock,
                                   form |-> WriteForm(req[c].contents),
                                   contents |-> req[c].contents])
        /\ hist' = [hist EXCEPT ![c] = Mark(@, "wr", "ok")]
        /\ Goto(c, "read_crow")
        /\ UNCHANGED <<resp, faults>>
     \/ /\ faults < MaxFaults
        /\ \E e \in IOErrors :
             resp' = [resp EXCEPT ![c] = WriteErrorReply(req[c].request_id, e)]
        /\ faults' = faults + 1
        /\ hist' = [hist EXCEPT ![c] = Mark(@, "wr", "fail")]
        /\ Goto(c, "write_failed")
        /\ UNCHANGED devIn
  /\ UNCHANGED <<io, backlog, clientVars, outbox, cur, busy, req, devOut, devNext>>

\* Where handle_conn continues after it reported a failed write: the `if let`
\* has no else, so the device read follows.
AfterWriteError == "read_crow"

\* if let Err(err) = write_chunk(..) { server.write_message(Failure{..}).await? }
ReplyWriteError(c) ==
  /\ tpc[c] = "write_failed"
  /\ Send(c, resp[c], AfterWriteError)
  /\ hist' = [hist EXCEPT ![c] = IF outbox'[c] # outbox[c]
                                 THEN Replied(@, Len(outbox'[c])) ELSE @]
  /\ UNCHANGED <<io, backlog, clientVars, cur, busy, req, resp, devVars>>

\* tokio's read_line appends the line with its terminator to the buffer.
ReadLine(l) == CASE l = "OK" -> "OK\n" [] OTHER -> "\n"

OnReadErrorSilent(c) == Goto(c, "read_message")
OnReadErrorPropagate(c) == EndSession(c)

\* handle_conn after read_crow_response returned Some(Err(_)): the error
\* becomes a Failure reply.
OnReadError(c) == Goto(c, "respond")

\* read_crow_response(crow).await: read_line under a 200 ms timeout.
ReadCrowResponse(c) ==
  /\ tpc[c] = "read_crow"
  /\ \/ /\ devOut # <<>>
        /\ resp' = [resp EXCEPT ![c] = Success(req[c].request_id, ReadLine(Head(devOut).line))]
        /\ \E k \in 1..Len(devOut) : devOut' = SubSeq(devOut, k + 1, Len(devOut))
        /\ hist' = [hist EXCEPT ![c] = Mark(Mark(MarkRead(@, "line", lock),
                                                 "got", Head(devOut).for),
                                            "gotAt", Head(devOut).at)]
        /\ Goto(c, "respond")
        /\ UNCHANGED faults
     \/ /\ devOut = <<>>
        /\ hist' = [hist EXCEPT ![c] = MarkRead(@, "timeout", lock)]
        /\ Goto(c, "read_message")
        /\ UNCHANGED <<resp, devOut, faults>>
     \/ /\ faults < MaxFaults
        /\ \E e \in IOErrors :
             resp' = [resp EXCEPT ![c] = Failure(Some(req[c].request_id), ErrorText(e))]
        /\ faults' = faults + 1
        /\ hist' = [hist EXCEPT ![c] = MarkRead(@, "err", lock)]
        /\ OnReadError(c)
        /\ UNCHANGED devOut
  /\ UNCHANGED <<io, backlog, clientVars, outbox, cur, busy, req, devIn, devNext>>

\* server.write_message(response).await?
Respond(c) ==
  /\ tpc[c] = "respond"
  /\ Send(c, resp[c], "read_message")
  /\ hist' = [hist EXCEPT ![c] = IF outbox'[c] # outbox[c]
                                 THEN Replied(@, Len(outbox'[c])) ELSE @]
  /\ UNCHANGED <<io, backlog, clientVars, cur, busy, req, resp, devVars>>

\* ------------------------------------------------------------- the device
\* The device answers a payload written to it with one line, in write order;
\* a payload it skips is never answered.
DeviceEmit ==
  \E j \in devNext..Len(devIn), l \in Lines :
    /\ devOut' = Append(devOut, [line |-> l, for |-> j, at |-> Len(devIn)])
    /\ devNext' = j + 1
    /\ UNCHANGED <<io, backlog, cstate, clientVars, outbox, srvVars, taskVars, devIn, faults>>

Next ==
  \/ \E c \in Conns : Connect(c)
  \/ \E c \in Conns, f \in ClientFrames : ClientSend(c, f)
  \/ \E c \in Conns : ClientClose(c)
  \/ Accept
  \/ FirstFrame
  \/ \E c \in Conns : TaskLock(c)
  \/ \E c \in Conns : ReadMessage(c)
  \/ \E c \in Conns : WriteChunk(c)
  \/ \E c \in Conns : ReplyWriteError(c)
  \/ \E c \in Conns : ReadCrowResponse(c)
  \/ \E c \in Conns : Respond(c)
  \/ DeviceEmit

Spec == Init /\ [][Next]_vars


\* ------------------------------------------------------- byte-level calls
\* A second specification looks at one call sequence of the byte-level
\* routines at a time, with the gateway at rest: io holds the arguments drawn
\* at the start, and each action applies the routine to them.
TextBytes == {97, Backtick}

PayloadLens == {0, 1, 255, 256, MaxPayload, BUFSIZE - 1, BUFSIZE}
FramePayloads == {Text(n, b) : n \in PayloadLens, b \in {97}} \cup {Text(n, Backtick) : n \in {1, 256}}

\* What a peer may put on the socket as one frame: a length prefix of its
\* choice and then some bytes, none, or as many as it declared.
DeclaredLens == {0, 1, BUFSIZE - 1, BUFSIZE} \cup {BUFSIZE + k : k \in 1..MaxOver}
RawStreams ==
  {Cat(U32BE(n), Text(a, 97)) : n \in DeclaredLens, a \in {0, 1}}
    \cup {Cat(U32BE(BUFSIZE), Cat(Text(BUFSIZE, 97), U32BE(BUFSIZE + k))) : k \in 0..MaxOver}
    \cup {Bytes(<<0, 0>>)}

FrameCalls ==
  {[NoCall EXCEPT !.op = "frames", !.tosend = q] :
     q \in {<<p>> : p \in FramePayloads} \cup {<<p, r>> : p, r \in FramePayloads}}
    \cup {[NoCall EXCEPT !.op = "frames", !.stream = st] : st \in RawStreams}

\* write_bytes of the next payload onto the connection.
DoWriteBytes ==
  /\ io.op = "frames"
  /\ io.tosend # <<>>
  /\ io' = [io EXCEPT !.tosend = Tail(io.tosend),
                      !.sent = Append(io.sent, Head(io.tosend)),
                      !.stream = Cat(io.stream, WriteBytes(Head(io.tosend)))]
  /\ UNCHANGED gatewayVars

\* read_bytes of the next frame off the connection, once the peer has sent
\* all it sends.
DoReadBytes ==
  /\ io.op = "frames"
  /\ io.tosend = <<>>
  /\ io.outcome \in {"", "ok"}
  /\ io.stream # <<>>
  /\ LET r == ReadBytes(io.stream) IN
       io' = [io EXCEPT !.stream = r.rest, !.len = r.len, !.asked = r.asked,
                        !.outcome = r.outcome,
                        !.got = IF r.outcome = "ok" THEN Append(io.got, r.payload) ELSE io.got]
  /\ UNCHANGED gatewayVars

\* handle_conn's write_chunk on the contents of a Success request.
ChunkCalls ==
  {[NoCall EXCEPT !.op = "write_chunk", !.text = Text(n, b)] : n \in 0..MaxChunk, b \in TextBytes}

DoWriteChunk ==
  /\ io.op = "write_chunk"
  /\ io.outcome = ""
  /\ io' = [io EXCEPT !.wire = WriteChunkWire(io.text), !.outcome = "ok"]
  /\ UNCHANGED gatewayVars

\* write_script on a script, in crow.rs and in main.rs.
ScriptCalls ==
  {[NoCall EXCEPT !.op = o, !.text = Text(n, b), !.info = i] :
     o \in {"write_script", "write_script_main"}, n \in 0..MaxScript, b \in TextBytes,
     i \in BOOLEAN}

DoWriteScript ==
  /\ io.op = "write_script"
  /\ io.outcome = ""
  /\ LET r == WriteScript(io.text, io.info) IN
       io' = [io EXCEPT !.wire = r.wire, !.outcome = r.outcome]
  /\ UNCHANGED gatewayVars

DoWriteScriptMain ==
  /\ io.op = "write_script_main"
  /\ io.outcome = ""
  /\ LET r == WriteScriptMain(io.text, io.info) IN
       io' = [io EXCEPT !.wire = r.wire, !.outcome = r.outcome]
  /\ UNCHANGED gatewayVars

\* repl::run on one line.
ReplCalls ==
  {[NoCall EXCEPT !.op = "repl_line", !.text = t] :
     t \in {Text(n, b) : n \in 0..MaxChunk, b \in TextBytes} \cup {ExitLine}}

DoReplLine ==
  /\ io.op = "repl_line"
  /\ io.outcome = ""
  /\ LET r == ReplLine(io.text) IN
       io' = [io EXCEPT !.wire = r.wire, !.outcome = r.outcome]
  /\ UNCHANGED gatewayVars

IOCalls == FrameCalls \cup ChunkCalls \cup ScriptCalls \cup ReplCalls

InitIO == GatewayInit /\ io \in IOCalls

NextIO ==
  \/ DoWriteBytes
  \/ DoReadBytes
  \/ DoWriteChunk
  \/ DoWriteScript
  \/ DoWriteScriptMain
  \/ DoReplLine

SpecIO == InitIO /\ [][NextIO]_vars


\* ================================================================= claims
\* The task is past crow.lock(): it runs handle_conn.
InSession(c) == tpc[c] \in {"read_message", "write_chunk", "write_failed", "read_crow", "respond"}
Ended(c) == tpc[c] = "done"

\* C1: at most one session is Active at any time; every device write and
\* every device read was made by the session that held the crow mutex at that
\* moment; and a session holds the mutex in every state from the start of
\* handle_conn to its end (it is never given up between messages), the mutex
\* being held by an Active session only.
C1_ExclusiveSession ==
  /\ Cardinality(ActiveSessions) <= 1
  /\ \A i \in 1..Len(devIn) : devIn[i].holder = devIn[i].conn
  /\ \A c \in Conns : \A i \in 1..Len(hist[c]) :
       hist[c][i].rd # "pending" => hist[c][i].rdBy = c
  /\ \A c \in Conns : InSession(c) => lock = c
  /\ \A c \in Conns : lock = c => Active(c)

\* C1 witness: a session is at its device read, holding the mutex, while another
\* client has connected and sent Start.
C1_Witness ==
  \E c, d \in Conns :
    /\ c # d
    /\ tpc[c] = "read_crow" /\ lock = c /\ devIn # <<>>
    /\ first[d] = "Start" /\ rival[d] = c

\* C2: a connection whose first frame, Start, was sent while another session
\* was Active is never admitted, and by the time that session has ended it
\* has been answered Failure{None, "BUSY"}.
C2_StartWhileBusyRejected ==
  \A c \in Conns :
    (first[c] = "Start" /\ rival[c] # NoConn) =>
      /\ tpc[c] = "none"
      /\ Ended(rival[c]) => outbox[c] = <<Busy>>

\* What C3 asks of one step, for every connection c.
C3_Step ==
  \A c \in Conns :
    /\ (Active(c) /\ tpc'[c] = "done") =>
          (lock' = NoConn /\ ~busy' /\ srv' = "accept")
    /\ (/\ srv = "read_first" /\ srv' # "read_first" /\ cur = c
        /\ inbox[c] # <<>> /\ Head(inbox[c]).msg = Start
        /\ \E d \in Conns : Ended(d)) =>
          (tpc'[c] = "lock" /\ srv' = "join" /\ lock' = NoConn)

\* C3: the step that ends an Active session (its client closed the socket, a
\* frame read failed or a frame was undecodable) leaves the crow mutex free,
\* the busy flag clear and run() back at accept; and a Start read as the
\* first frame of a connection after a session has ended is admitted, with
\* the mutex free for its task.
C3_ReleasedOnEnd == [][C3_Step]_vars

\* C3 witness: after one session has ended, a later connection's Start was
\* admitted and its task holds the mutex.
C3_Witness ==
  \E c, d \in Conns : c # d /\ Ended(d) /\ first[c] = "Start" /\ InSession(c) /\ lock = c

\* C4: a connection whose first frame is Check is never made a session and
\* never holds the mutex, the busy flag stays as it was, and its answer is
\* Affirm when the frame was sent with no session Active, and
\* Failure{None, "BUSY"}, given by the time that session has ended, when it
\* was sent while a session was Active.
C4_CheckAnswer ==
  \A c \in Conns :
    first[c] = "Check" =>
      /\ tpc[c] = "none" /\ lock # c /\ ~busy
      /\ \A i \in 1..Len(devIn) : devIn[i].conn # c
      /\ rival[c] = NoConn => outbox[c] \in {<<>>, <<Affirm>>}
      /\ (rival[c] # NoConn /\ Ended(rival[c])) => outbox[c] = <<Busy>>


\* Request i of session c has been processed to its end: handle_conn went
\* back to read_message after it.
Settled(c, i) == i \in 1..Len(hist[c]) /\ (i < Len(hist[c]) \/ tpc[c] = "read_message")
Reqs(c) == 1..Len(hist[c])
NumReplies(c, i) == Len(hist[c][i].replies)
Reply(c, i, k) == outbox[c][hist[c][i].replies[k]]
IsIOFailure(m, id) == \E e \in IOErrors : m = Failure(Some(id), ErrorText(e))

\* C5: a processed request whose device read produced a line has exactly one
\* reply, a message bearing the request's id, and that reply precedes every
\* reply to a later request.
C5_OneCorrelatedReply ==
  \A c \in Conns : \A i \in Reqs(c) :
    (Settled(c, i) /\ hist[c][i].rd = "line") =>
      /\ NumReplies(c, i) = 1
      /\ Reply(c, i, 1).request_id = hist[c][i].id
      /\ \A j \in Reqs(c) : \A k \in 1..NumReplies(c, j) :
           j > i => hist[c][i].replies[1] < hist[c][j].replies[k]

\* C6: no request has more than one reply bearing its id, whatever the device
\* write and read did, and a request whose write went through and whose read
\* bound elapsed has none.
C6_AtMostOneReply ==
  \A c \in Conns : \A i \in Reqs(c) :
    /\ NumReplies(c, i) <= 1
    /\ (Settled(c, i) /\ hist[c][i].wr = "ok" /\ hist[c][i].rd = "timeout") =>
         NumReplies(c, i) = 0

\* C7: frames are read in the order the client sent them, none skipped; a
\* request is read only after every earlier request's device write and device
\* read have resolved; the device writes of a session are in request order,
\* and so are its replies.
C7_InOrderNoPipelining ==
  \A c \in Conns :
    /\ lastSeq[c] = nsent[c] - Len(inbox[c])
    /\ \A i, j \in Reqs(c) : i < j => hist[c][i].seq < hist[c][j].seq
    /\ \A i \in Reqs(c) :
         Settled(c, i) => (hist[c][i].wr # "pending" /\ hist[c][i].rd # "pending")
    /\ \A a, b \in 1..Len(devIn) :
         (a < b /\ devIn[a].conn = c /\ devIn[b].conn = c) => devIn[a].n < devIn[b].n
    /\ \A i, j \in Reqs(c) : \A k \in 1..NumReplies(c, i) : \A l \in 1..NumReplies(c, j) :
         i < j => hist[c][i].replies[k] < hist[c][j].replies[l]

\* C7 witness: a request is in its device round trip while the client's next
\* request already waits unread on the connection.
C7_Witness ==
  \E c \in Conns :
    /\ tpc[c] = "read_crow" /\ hist[c][Len(hist[c])].wr = "ok"
    /\ inbox[c] # <<>> /\ Head(inbox[c]).msg.status = "Success"

\* C8 as stated: every processed request has exactly one reply, a Success or
\* a Failure bearing its id.
C8_ExactlyOneReply ==
  \A c \in Conns : \A i \in Reqs(c) :
    Settled(c, i) =>
      /\ NumReplies(c, i) = 1
      /\ Reply(c, i, 1).status \in {"Success", "Failure"}
      /\ Reply(c, i, 1).request_id = hist[c][i].id

\* C8 amended: a processed request has one reply for a failed device write
\* and one for a device line or a device read error, each a Success or a
\* Failure bearing its id: none when the write went through and the read
\* bound elapsed, two when the write failed and the read gave a line or an
\* error.
C8_RepliesPerOutcome ==
  \A c \in Conns : \A i \in Reqs(c) :
    Settled(c, i) =>
      /\ hist[c][i].wr \in {"ok", "fail"} /\ hist[c][i].rd \in {"line", "err", "timeout"}
      /\ NumReplies(c, i) = (IF hist[c][i].wr = "fail" THEN 1 ELSE 0)
                            + (IF hist[c][i].rd \in {"line", "err"} THEN 1 ELSE 0)
      /\ \A k \in 1..NumReplies(c, i) :
           /\ Reply(c, i, k).status \in {"Success", "Failure"}
           /\ Reply(c, i, k).request_id = hist[c][i].id

\* C8 witness: a request was processed to its end without any reply: its
\* write went through and its read bound elapsed.
C8_Witness ==
  \E c \in Conns : \E i \in Reqs(c) :
    Settled(c, i) /\ hist[c][i].wr = "ok" /\ hist[c][i].rd = "timeout" /\ NumReplies(c, i) = 0

\* C9: when the device write of request id fails, the reply handle_conn is
\* about to write is Failure{Some(id), text of the error}, and it is on the
\* connection before the device read of that request starts.
C9_WriteFailureReported ==
  \A c \in Conns : \A i \in Reqs(c) :
    hist[c][i].wr = "fail" =>
      /\ (i = Len(hist[c]) /\ tpc[c] = "write_failed") =>
           (IsIOFailure(resp[c], hist[c][i].id) /\ NumReplies(c, i) = 0)
      /\ (hist[c][i].rd # "pending" \/ (i = Len(hist[c]) /\ tpc[c] = "read_crow")) =>
           (NumReplies(c, i) >= 1 /\ IsIOFailure(Reply(c, i, 1), hist[c][i].id))

\* C9 witness: the write of a request failed and the Failure bearing its id
\* is the last message on the connection, the device read not yet made.
C9_Witness ==
  \E c \in Conns :
    /\ tpc[c] = "read_crow" /\ hist[c] # <<>> /\ hist[c][Len(hist[c])].wr = "fail"
    /\ outbox[c] # <<>>
    /\ IsIOFailure(outbox[c][Len(outbox[c])], req[c].request_id)

\* A device transport error happened in session c.
DeviceErrorIn(c) == \E i \in Reqs(c) : hist[c][i].wr = "fail" \/ hist[c][i].rd = "err"

\* C10 as stated: after a device transport error the session does not go on
\* to read further requests.
C10_DeviceErrorEndsSession ==
  \A c \in Conns : DeviceErrorIn(c) => tpc[c] # "read_message"

\* What the amended C10 asks of one step, for every connection c.
C10_Step ==
  \A c \in Conns :
    /\ (tpc[c] = "write_chunk" /\ tpc'[c] = "write_failed") =>
         /\ lock' = c /\ devIn' = devIn
         /\ IsIOFailure(resp'[c], req[c].request_id)
    /\ (tpc[c] = "read_crow" /\ faults' # faults) =>
         /\ tpc'[c] = "respond" /\ lock' = c
         /\ IsIOFailure(resp'[c], req[c].request_id)
    /\ tpc[c] \in {"write_chunk", "read_crow"} => tpc'[c] # "done"
    /\ (tpc'[c] = "write_chunk" /\ tpc[c] # "write_chunk") => tpc[c] = "read_message"
    /\ (tpc[c] = "read_crow" /\ tpc'[c] # "read_crow") => tpc'[c] \in {"respond", "read_message"}

\* C10 amended: a failed device write or read does not end the session: the
\* step leaves the task running with the mutex, the error on its way to the
\* client as Failure{Some(id), text}; no device step ends a session, and a
\* device write or read is made once per request, never again after failing.
C10_DeviceErrorReported == [][C10_Step]_vars

\* C10 witness: a session read a further request after a device transport
\* error on an earlier one.
C10_Witness ==
  \E c \in Conns :
    /\ Len(hist[c]) = 2 /\ InSession(c) /\ lock = c
    /\ (hist[c][1].wr = "fail" \/ hist[c][1].rd = "err")

\* The step reads an undecodable frame off connection c: run()'s first-frame
\* read or the session's read_message takes the frame and serde rejects it.
ReadsUndecodable(c) ==
  /\ inbox[c] # <<>>
  /\ ~Decodable(Head(inbox[c]).msg)
  /\ inbox'[c] = Tail(inbox[c])

\* What C11 asks of one step, for every connection c.
C11_Step ==
  \A c \in Conns :
    ReadsUndecodable(c) =>
      outbox'[c] = Append(outbox[c], Failure(None, "don't understand"))

\* C11: every undecodable frame the server reads, as a connection's first
\* frame or inside an Active session, is answered on that connection with
\* Failure{None, "don't understand"} by the step that reads it.
C11_UndecodableAnswered == [][C11_Step]_vars

\* A read_bytes call has returned or panicked.
ReadDone == io.op = "frames" /\ io.outcome # ""

\* C12 as stated: a frame whose declared length is BUFSIZE or more is not
\* received, and read_exact is not called for its payload.
C12_AtLeastBufsizeRejected ==
  (ReadDone /\ io.len >= BUFSIZE) => (io.outcome # "ok" /\ io.asked = 0)

\* C12, amended: a frame whose declared length is greater than BUFSIZE makes
\* read_bytes panic on the buffer slice before read_exact is called, and
\* delivers nothing; a frame that declares exactly BUFSIZE is read: read_exact
\* is called for BUFSIZE bytes, and when they arrive the payload is delivered
\* whole.
C12_OverBufsizePanics ==
  /\ (ReadDone /\ io.len > BUFSIZE) => (io.outcome = "panic" /\ io.asked = 0)
  /\ (ReadDone /\ io.len = BUFSIZE) =>
       /\ io.asked = BUFSIZE
       /\ io.outcome \in {"ok", "error"}
       /\ io.outcome = "ok" => NumBytes(io.got[Len(io.got)]) = BUFSIZE
  /\ \A i \in 1..Len(io.got) : NumBytes(io.got[i]) <= BUFSIZE

\* C12 witness: a frame of exactly BUFSIZE payload bytes was received, and the
\* next frame, declaring more than BUFSIZE, made read_bytes panic.
C12_Witness ==
  /\ ReadDone /\ io.len > BUFSIZE /\ io.outcome = "panic"
  /\ Len(io.got) = 1 /\ NumBytes(io.got[1]) = BUFSIZE

\* C13: write_chunk puts on the serial line, for a text of 64 bytes or more,
\* three backticks, the text, three backticks and a newline, and for a text
\* of fewer than 64 bytes the text and a newline; nothing else, and the text
\* unchanged.
C13_WriteFormByLength ==
  (io.op = "write_chunk" /\ io.outcome = "ok") =>
    LET n == NumBytes(io.text) IN
      IF n >= 64
        THEN /\ NumBytes(io.wire) = n + 7
             /\ Take(io.wire, 3) = Bytes(<<Backtick, Backtick, Backtick>>)
             /\ Take(Drop(io.wire, 3), n) = io.text
             /\ Drop(io.wire, n + 3) = Bytes(<<Backtick, Backtick, Backtick, NL>>)
        ELSE /\ NumBytes(io.wire) = n + 1
             /\ Take(io.wire, n) = io.text
             /\ Drop(io.wire, n) = Bytes(<<NL>>)

\* C13 witness: a text of exactly 64 bytes was written, delimited.
C13_Witness ==
  /\ io.op = "write_chunk" /\ io.outcome = "ok"
  /\ io.text = Text(64, 97)
  /\ io.wire = <<Run(Backtick, 3), Run(97, 64), Run(Backtick, 3), Run(NL, 1)>>

\* C14: every call of write_script, whatever the script's length, completes
\* and has put on the wire exactly "^^s", the script, "^^e" and a newline.
C14_ScriptFramed ==
  (io.op \in {"write_script", "write_script_main"} /\ io.outcome # "") =>
    /\ io.outcome = "ok"
    /\ io.wire = Cat(Cat(Cat(Bytes(<<Caret, Caret, 115>>), io.text),
                         Bytes(<<Caret, Caret, 101>>)), Bytes(<<NL>>))

\* The call sends frames whose payloads all are shorter than BUFSIZE.
SendsFrames ==
  /\ io.op = "frames"
  /\ io.sent \o io.tosend # <<>>
  /\ \A i \in 1..Len(io.sent) : NumBytes(io.sent[i]) < BUFSIZE
  /\ \A i \in 1..Len(io.tosend) : NumBytes(io.tosend[i]) < BUFSIZE

\* C15: for payloads shorter than BUFSIZE, write_bytes puts on the wire the
\* payload's length as four bytes, most significant first, and then the
\* payload; read_bytes never fails on such a stream, returns the payloads in
\* the order they were sent, each unchanged, and has returned every one of
\* them when the stream is used up.
C15_FrameRoundTrip ==
  SendsFrames =>
    /\ io.outcome \in {"", "ok"}
    /\ Len(io.got) <= Len(io.sent)
    /\ \A i \in 1..Len(io.got) : io.got[i] = io.sent[i]
    /\ (io.tosend = <<>> /\ io.stream = <<>>) => io.got = io.sent
    /\ (Len(io.sent) = 1 /\ io.got = <<>>) =>
         LET n == NumBytes(io.sent[1]) IN
           /\ NumBytes(io.stream) = 4 + n
           /\ ByteAt(io.stream, 1) = n \div 16777216
           /\ ByteAt(io.stream, 2) = (n \div 65536) % 256
           /\ ByteAt(io.stream, 3) = (n \div 256) % 256
           /\ ByteAt(io.stream, 4) = n % 256
           /\ Drop(io.stream, 4) = io.sent[1]

\* C15 witness: a payload of BUFSIZE - 1 bytes and then one of 256 bytes
\* were sent back to back and both have been received.
C15_Witness ==
  /\ SendsFrames
  /\ Len(io.got) = 2 /\ io.got = io.sent
  /\ NumBytes(io.got[1]) = BUFSIZE - 1 /\ NumBytes(io.got[2]) = 256

\* C16: the contents of every Success reply the server sends is a device line
\* without its newline terminator: the device's line "OK" reaches the client
\* as Success{request_id, "OK"}.
C16_TerminatorStripped ==
  \A c \in Conns : \A i \in 1..Len(outbox[c]) :
    outbox[c][i].status = "Success" => outbox[c][i].contents \in Lines

\* The step reads, off connection c, a decodable frame with one of the tags.
ReadsFirst(c, tags) ==
  /\ srv = "read_first" /\ cur = c
  /\ inbox[c] # <<>> /\ inbox'[c] = Tail(inbox[c])
  /\ Head(inbox[c]).msg.status \in tags
ReadsInSession(c, tags) ==
  /\ tpc[c] = "read_message"
  /\ inbox[c] # <<>> /\ inbox'[c] = Tail(inbox[c])
  /\ Head(inbox[c]).msg.status \in tags

\* What C17 asks of one step, for every connection c.
C17_Step ==
  \A c \in Conns :
    /\ ReadsFirst(c, {"Affirm", "Success", "Failure"}) =>
         /\ devIn' = devIn /\ tpc' = tpc /\ lock' = lock
         /\ \/ outbox'[c] = Append(outbox[c], Failure(None, "don't understand"))
            \/ clientClosed[c] /\ outbox'[c] = outbox[c] /\ srv' = "stopped"
    /\ ReadsInSession(c, {"Start", "Check", "Affirm"}) =>
         /\ devIn' = devIn
         /\ \/ /\ outbox'[c] = Append(outbox[c], Failure(None, "don't understand"))
               /\ tpc'[c] = "read_message" /\ lock' = c
            \/ clientClosed[c] /\ outbox'[c] = outbox[c] /\ tpc'[c] = "done"
    /\ (tpc[c] = "none" /\ cstate[c] = "dropped") => outbox'[c] = outbox[c]

\* C17: the step that reads a decodable message of a kind not accepted in the
\* current state writes exactly one Failure{None, "don't understand"} to that
\* connection and nothing to the device: as a first frame, Affirm, Success
\* or Failure, after which the connection gets nothing more; in a session,
\* Start, Check or Affirm, after which the session is still Active, holding
\* the mutex and reading the next message. The reply is missing only when the
\* client has closed its socket and the write fails.
C17_UnexpectedKindRejected == [][C17_Step]_vars

\* C17 witness: one connection sent Affirm as its first frame and was answered
\* "don't understand"; another, in a session, sent Check, was answered the
\* same and is reading its next message.
C17_Witness ==
  \E c, d \in Conns :
    /\ first[d] = "Affirm" /\ outbox[d] = <<Failure(None, "don't understand")>>
    /\ tpc[d] = "none"
    /\ first[c] = "Start" /\ tpc[c] = "read_message" /\ lock = c /\ inbox[c] = <<>>
    /\ outbox[c] = <<Failure(None, "don't understand")>>
    /\ devIn = <<>>

\* C18: in every state the busy flag is true exactly when a session holds
\* the crow mutex.
C18_BusyIffSessionHoldsLink == busy <=> (\E c \in Conns : lock = c /\ InSession(c))

\* C19: run() never returns: whatever a client does on its connection, the
\* accept loop is still there to accept the next one.
C19_AcceptLoopSurvives == srv # "stopped"

\* C20: the line delivered in a Success reply to a request was emitted by the
\* device after that request's payload had been written to it: the payload
\* is among the device's input, and the line was emitted when it already was.
C20_ReplyLineIsFresh ==
  \A c \in Conns : \A i \in Reqs(c) :
    hist[c][i].rd = "line" =>
      \E w \in 1..Len(devIn) :
        /\ devIn[w].conn = c /\ devIn[w].n = i
        /\ hist[c][i].gotAt >= w

\* C21: for every line but "exit" the REPL puts on the serial line the bytes
\* handle_conn's write_chunk puts there for the same text, delimited exactly
\* when write_chunk delimits; and on "exit" it ends its loop with no byte
\* written.
C21_ReplWritesAsGateway ==
  (io.op = "repl_line" /\ io.outcome # "") =>
    IF io.text = Bytes(<<101, 120, 105, 116>>)
      THEN io.outcome = "exit" /\ io.wire = <<>>
      ELSE io.outcome = "ok" /\ io.wire = WriteChunkWire(io.text)

====
